---- MODULE Spec2Model ----
(***************************************************************************)
(* Package routingv8: the decoding of the response types (ErrorCodes,      *)
(* MatrixResponse, RoutesResponse) and RoutingService.Routes.              *)
(*                                                                         *)
(* Two specifications share the module:                                    *)
(*   DecodeSpec  the decoders applied to wire values drawn from bounded    *)
(*               sets (ErrorCodes.UnmarshalJSON and the struct decodes);   *)
(*   Spec        NumCalls concurrent calls of RoutingService.Routes, each  *)
(*               stepping through the statements of the function.          *)
(*                                                                         *)
(* A JSON value is a record with a kind field k:                           *)
(*   "num"  a number literal: sign, integer digits, fraction digits        *)
(*   "str", "bool", "null", "obj"  the other literals                      *)
(*   "arr"  an array of values                                             *)
(*   "absent"  stands for a key that the enclosing object does not hold    *)
(* A Go slice is [nil, items]: nil slices and empty slices are distinct.   *)
(* An error is [type, msg]; NoErr is Go's nil error.                       *)
(***************************************************************************)
EXTENDS Integers, Sequences, FiniteSets, TLC

\* ------------------------------------------------------------- bounds
\* Longest errorCodes array drawn as an input.
MaxLen == 3
\* Longest travelTimes / distances array drawn as an input.
MaxCells == 6
\* Number of Routes calls that may be in flight at once.
NumCalls == 2

\* ------------------------------------------------------------- errors
NoErr == [type |-> "nil", msg |-> ""]

\* encoding/json's *UnmarshalTypeError: JSON value `value` does not fit Go type `into`.
UnmarshalTypeError(value, into) ==
    [type |-> "json.UnmarshalTypeError",
     msg |-> "json: cannot unmarshal " \o value \o " into Go value of type " \o into]

\* ------------------------------------------------------------- slices
NilSlice == [nil |-> TRUE, items |-> <<>>]
MakeSlice(items) == [nil |-> FALSE, items |-> items]

\* ------------------------------------------------------------- JSON literals
Absent == [k |-> "absent"]
NullLit == [k |-> "null"]
StrLit(s) == [k |-> "str", s |-> s]
BoolLit == [k |-> "bool"]
Arr(items) == [k |-> "arr", items |-> items]

\* The decimal digits of n >= 0, most significant first (strconv.AppendInt):
\* ds[m] is the digits of m.
Digits(n) ==
    LET ds[m \in Nat] == IF m < 10 THEN <<m>> ELSE Append(ds[m \div 10], m % 10)
    IN ds[n]

\* The wire form of a Go int (json.Marshal of an int: strconv.AppendInt base 10).
IntLit(n) ==
    [k |-> "num", neg |-> n < 0, ip |-> Digits(IF n < 0 THEN 0 - n ELSE n), fp |-> <<>>]

\* A number literal with a fraction part, ip.fp
FloatLit(ip, fp) == [k |-> "num", neg |-> FALSE, ip |-> ip, fp |-> fp]

\* 9223372036854775808 = 2^63: an integer literal one past the largest int64.
BigLit ==
    [k |-> "num", neg |-> FALSE,
     ip |-> <<9, 2, 2, 3, 3, 7, 2, 0, 3, 6, 8, 5, 4, 7, 7, 5, 8, 0, 8>>, fp |-> <<>>]

\* The digits of the largest magnitudes a signed integer of 32 and 64 bits holds.
MaxDigits(bits) ==
    IF bits = 32 THEN <<2, 1, 4, 7, 4, 8, 3, 6, 4, 7>>
    ELSE <<9, 2, 2, 3, 3, 7, 2, 0, 3, 6, 8, 5, 4, 7, 7, 5, 8, 0, 7>>

\* a <= b for digit sequences without leading zeros: a is shorter, or as long
\* and not greater at the first digit where they differ.
DigitsLE(a, b) ==
    \/ Len(a) < Len(b)
    \/ /\ Len(a) = Len(b)
       /\ \A i \in 1..Len(a) : (\A j \in 1..(i - 1) : a[j] = b[j]) => a[i] <= b[i]

\* The number a digit sequence denotes: val[i] is the number its first i
\* digits denote.
DigitsValue(ds) ==
    LET val[i \in 0..Len(ds)] == IF i = 0 THEN 0 ELSE 10 * val[i - 1] + ds[i]
    IN val[Len(ds)]

\* Whether the magnitude ip with the sign neg is within the integers whose
\* largest magnitude is max; the one negative value beyond max, the minimum
\* itself, has the magnitude max + 1.
InRange(ip, neg, max) ==
    \/ DigitsLE(ip, max)
    \/ /\ neg
       /\ Len(ip) = Len(max)
       /\ SubSeq(ip, 1, Len(ip) - 1) = SubSeq(max, 1, Len(ip) - 1)
       /\ ip[Len(ip)] = max[Len(ip)] + 1

\* strconv.ParseInt(literal, 10, 64) followed by reflect's OverflowInt for a
\* field of `bits` bits, as encoding/json applies them to a number literal:
\* a fraction part is a syntax error for ParseInt, a magnitude beyond the
\* type's range an overflow.
ParseInt(tok, bits) ==
    IF tok.fp # <<>> \/ ~InRange(tok.ip, tok.neg, MaxDigits(bits))
    THEN [ok |-> FALSE, v |-> 0]
    ELSE [ok |-> TRUE,
          v |-> IF tok.neg THEN 0 - DigitsValue(tok.ip) ELSE DigitsValue(tok.ip)]

\* How encoding/json names a JSON value in an UnmarshalTypeError.
JsonKind(tok) ==
    CASE tok.k = "num" -> "number"
      [] tok.k = "str" -> "string"
      [] tok.k = "bool" -> "bool"
      [] tok.k = "arr" -> "array"
      [] OTHER -> "object"

\* encoding/json storing a number literal, parsed, into an integer element.
StoreParsed(parsed, cur, goType) ==
    IF parsed.ok THEN [v |-> parsed.v, err |-> NoErr]
    ELSE [v |-> cur, err |-> UnmarshalTypeError("number", goType)]

\* encoding/json storing one JSON value into an integer element or field
\* whose current value is cur: null has no effect on a number, a number
\* literal is stored if it parses as an integer of the width, and everything
\* else is a type error that leaves the value alone.
IntElem(tok, cur, bits, goType) ==
    CASE tok.k = "null" -> [v |-> cur, err |-> NoErr]
      [] tok.k = "num" -> StoreParsed(ParseInt(tok, bits), cur, goType)
      [] OTHER -> [v |-> cur, err |-> UnmarshalTypeError(JsonKind(tok), goType)]

\* The first error of a sequence of errors that is not nil (json's savedError).
FirstErr(errs) ==
    LET bad == {i \in 1..Len(errs) : errs[i] # NoErr}
    IN IF bad = {} THEN NoErr ELSE errs[CHOOSE i \in bad : \A j \in bad : i <= j]

\* The elements of an array decoded one by one, each [v, err]: the values in
\* order, and the first error (a type error is saved and the decoding goes on).
Collect(elems) ==
    [v |-> [i \in 1..Len(elems) |-> elems[i].v],
     err |-> FirstErr([i \in 1..Len(elems) |-> elems[i].err])]

\* encoding/json filling a fresh slice of integers from the elements of an
\* array: every element is decoded in order into a zero element.
IntElems(items, bits, goType) ==
    Collect([i \in 1..Len(items) |-> IntElem(items[i], 0, bits, goType)])

\* The non-nil slice of decoded elements, with their error.
AsSlice(elems) == [v |-> MakeSlice(elems.v), err |-> elems.err]

\* json.Unmarshal(b, &s) for s a slice of integers holding `cur`: an array
\* gives a non-nil slice of its elements, null sets the slice to nil, and any
\* other value is a type error that leaves the slice alone.
UnmarshalIntSlice(b, cur, bits, goType) ==
    CASE b.k = "arr" -> AsSlice(IntElems(b.items, bits, goType))
      [] b.k = "null" -> [v |-> NilSlice, err |-> NoErr]
      [] OTHER -> [v |-> cur, err |-> UnmarshalTypeError(JsonKind(b), "[]" \o goType)]

\* ------------------------------------------------------------- ErrorCodes
ErrorCodeSuccess == 0
ErrorCodeDisconnected == 1
ErrorCodeMatchingFailed == 2
ErrorCodeParameterViolation == 3
ErrorCodeUnknown == 99

\* The conversion ErrorCode(errorCode): a value of the named type.
ErrorCode(errorCode) == [ErrorCode |-> errorCode]

\* The conversion int(code) of an ErrorCode.
IntOf(code) == code.ErrorCode

RECURSIVE AppendCodesClosed(_, _)
AppendCodesClosed(codes, errorCodes) ==
    IF errorCodes = <<>> THEN codes
    ELSE AppendCodesClosed(
             IF Head(errorCodes) \in {ErrorCodeSuccess, ErrorCodeDisconnected,
                                      ErrorCodeMatchingFailed,
                                      ErrorCodeParameterViolation, ErrorCodeUnknown}
             THEN Append(codes, ErrorCode(Head(errorCodes)))
             ELSE codes,
             Tail(errorCodes))

RECURSIVE AppendCodes(_, _)
\* The loop of UnmarshalJSON: codes = append(codes, ErrorCode(errorCode)) for
\* each errorCode in order.
AppendCodes(codes, errorCodes) ==
    IF errorCodes = <<>> THEN codes
    ELSE AppendCodes(Append(codes, ErrorCode(Head(errorCodes))), Tail(errorCodes))

\* UnmarshalJSON once json.Unmarshal(b, &errorCodes) has returned raw: an
\* error is returned and the receiver left alone; otherwise the receiver is
\* assigned the converted codes.
AssignCodes(e, raw) ==
    IF raw.err # NoErr
    THEN [e |-> e, err |-> raw.err]
    ELSE [e |-> MakeSlice(AppendCodes(<<>>, raw.v.items)), err |-> NoErr]

\* func (e *ErrorCodes) UnmarshalJSON(b []byte) error, on a receiver holding
\* e: the new value of the receiver and the error returned.
UnmarshalJSON(e, b) == AssignCodes(e, UnmarshalIntSlice(b, MakeSlice(<<>>), 64, "int"))

\* ------------------------------------------------------------- struct decoding
\* encoding/json storing the value of a key into an integer field: a key the
\* object does not hold leaves the field alone.
IntField(tok, cur, bits, goType) ==
    IF tok.k = "absent" THEN [v |-> cur, err |-> NoErr]
    ELSE IntElem(tok, cur, bits, goType)

\* encoding/json storing the value of a key into a string field.
StringField(tok, cur) ==
    CASE tok.k \in {"absent", "null"} -> [v |-> cur, err |-> NoErr]
      [] tok.k = "str" -> [v |-> tok.s, err |-> NoErr]
      [] OTHER -> [v |-> cur, err |-> UnmarshalTypeError(JsonKind(tok), "string")]

IntSliceFieldRequired(tok, cur, bits, goType) ==
    IF tok.k = "absent"
    THEN [v |-> cur, err |-> [type |-> "fmt.Error", msg |-> "missing field"]]
    ELSE UnmarshalIntSlice(tok, cur, bits, goType)

\* encoding/json storing the value of a key into a field that is a slice of
\* integers (TravelTimes, Distances: []int32).
IntSliceField(tok, cur, bits, goType) ==
    IF tok.k = "absent" THEN [v |-> cur, err |-> NoErr]
    ELSE UnmarshalIntSlice(tok, cur, bits, goType)

\* encoding/json storing the value of the key errorCodes into a field of type
\* ErrorCodes: the type implements json.Unmarshaler, so every value the key
\* holds (null included, the field being addressable) is handed to
\* UnmarshalJSON; an absent key never calls it.
ErrorCodesField(tok, cur) ==
    IF tok.k = "absent" THEN [e |-> cur, err |-> NoErr]
    ELSE UnmarshalJSON(cur, tok)

\* type MatrixResponse struct: the zero value.
MatrixResponse ==
    [NumOrigins |-> 0, NumDestinations |-> 0, TravelTimes |-> NilSlice,
     Distances |-> NilSlice, ErrorCodes |-> NilSlice]

\* The MatrixResponse of the five decoded fields, and the error of the decode:
\* an error of UnmarshalJSON ends the decode and is the error returned;
\* otherwise the first type error saved.
MatrixResponseOf(no, nd, tt, di, ec) ==
    [v |-> [NumOrigins |-> no.v, NumDestinations |-> nd.v, TravelTimes |-> tt.v,
            Distances |-> di.v, ErrorCodes |-> ec.e],
     err |-> IF ec.err # NoErr THEN ec.err
             ELSE FirstErr(<<no.err, nd.err, tt.err, di.err>>)]

\* json.Unmarshal of an object into a zero MatrixResponse, by the json tags of
\* the struct.  body holds the value of each of the five keys (Absent for a
\* key the object lacks), taken in the order of the struct's fields.
DecodeMatrixResponse(body) ==
    MatrixResponseOf(
        IntField(body.numOrigins, MatrixResponse.NumOrigins, 64, "int"),
        IntField(body.numDestinations, MatrixResponse.NumDestinations, 64, "int"),
        IntSliceField(body.travelTimes, MatrixResponse.TravelTimes, 32, "int32"),
        IntSliceField(body.distances, MatrixResponse.Distances, 32, "int32"),
        ErrorCodesField(body.errorCodes, MatrixResponse.ErrorCodes))

\* type Section struct: the zero value (of the fourteen fields the model keeps
\* ID and Type; the others decode by the same structural rule).
Section == [ID |-> "", Type |-> ""]

\* type Route struct: the zero value.
Route == [ID |-> "", Sections |-> NilSlice]

\* type RoutesResponse struct: the zero value.
RoutesResponse == [Routes |-> NilSlice, ErrorCodes |-> NilSlice]

\* The Section of its decoded fields.
SectionOf(id, type) ==
    [v |-> [ID |-> id.v, Type |-> type.v], err |-> FirstErr(<<id.err, type.err>>)]

\* encoding/json decoding one element of a sections array into a zero Section.
DecodeSection(tok) ==
    CASE tok.k = "null" -> [v |-> Section, err |-> NoErr]
      [] tok.k = "obj" ->
            SectionOf(StringField(tok.id, Section.ID), StringField(tok.type, Section.Type))
      [] OTHER -> [v |-> Section, err |-> UnmarshalTypeError(JsonKind(tok), "routingv8.Section")]

\* encoding/json filling a fresh slice of Sections from the elements of an array.
DecodeSectionElems(items) == Collect([i \in 1..Len(items) |-> DecodeSection(items[i])])

\* encoding/json storing the value of the key sections into Route.Sections.
SectionsField(tok, cur) ==
    CASE tok.k = "absent" -> [v |-> cur, err |-> NoErr]
      [] tok.k = "null" -> [v |-> NilSlice, err |-> NoErr]
      [] tok.k = "arr" -> AsSlice(DecodeSectionElems(tok.items))
      [] OTHER -> [v |-> cur, err |-> UnmarshalTypeError(JsonKind(tok), "[]routingv8.Section")]

\* The Route of its decoded fields.
RouteOf(id, sections) ==
    [v |-> [ID |-> id.v, Sections |-> sections.v], err |-> FirstErr(<<id.err, sections.err>>)]

\* encoding/json decoding one element of a routes array into a zero Route.
DecodeRoute(tok) ==
    CASE tok.k = "null" -> [v |-> Route, err |-> NoErr]
      [] tok.k = "obj" ->
            RouteOf(StringField(tok.id, Route.ID), SectionsField(tok.sections, Route.Sections))
      [] OTHER -> [v |-> Route, err |-> UnmarshalTypeError(JsonKind(tok), "routingv8.Route")]

\* encoding/json filling a fresh slice of Routes from the elements of an array.
DecodeRouteElems(items) == Collect([i \in 1..Len(items) |-> DecodeRoute(items[i])])

\* encoding/json storing the value of the key routes into RoutesResponse.Routes.
RoutesField(tok, cur) ==
    CASE tok.k = "absent" -> [v |-> cur, err |-> NoErr]
      [] tok.k = "null" -> [v |-> NilSlice, err |-> NoErr]
      [] tok.k = "arr" -> AsSlice(DecodeRouteElems(tok.items))
      [] OTHER -> [v |-> cur, err |-> UnmarshalTypeError(JsonKind(tok), "[]routingv8.Route")]

\* The RoutesResponse of the two decoded fields, and the error of the decode:
\* an error of UnmarshalJSON ends the decode and is the error returned.
RoutesResponseOf(ro, ec) ==
    [v |-> [Routes |-> ro.v, ErrorCodes |-> ec.e],
     err |-> IF ec.err # NoErr THEN ec.err ELSE ro.err]

\* json.Unmarshal of an object into a zero RoutesResponse, by the json tags of
\* the struct; body holds the value of the keys routes and errorCodes.
DecodeRoutesResponse(body) ==
    RoutesResponseOf(RoutesField(body.routes, RoutesResponse.Routes),
                     ErrorCodesField(body.errorCodes, RoutesResponse.ErrorCodes))

\* ------------------------------------------------------------- decoder inputs
\* All sequences over S of length at most n.
SeqsUpTo(S, n) == UNION {[1..m -> S] : m \in 0..n}

\* Integers drawn as error codes: named constants and values outside them.
SampleInts == {0 - 1, ErrorCodeSuccess, ErrorCodeMatchingFailed, 7, ErrorCodeUnknown}

\* The wire form of a sequence of Go ints: the array of their literals.
WireForm(S) == Arr([i \in 1..Len(S) |-> IntLit(S[i])])

\* The values drawn as elements of an errorCodes array: integer literals, an
\* integer literal beyond int64, 1.5, "a", null and a boolean.
ElemTokens ==
    {IntLit(n) : n \in SampleInts}
        \cup {BigLit, FloatLit(<<1>>, <<5>>), StrLit("a"), NullLit, BoolLit}

\* The values drawn for an errorCodes key.
CodeWires == {Arr(s) : s \in SeqsUpTo(ElemTokens, MaxLen)} \cup {NullLit, StrLit("a")}

\* The array 10, 20, ..., 10 * n of int32 literals.
Cells(n) == Arr([i \in 1..n |-> IntLit(10 * i)])

\* The values drawn for a travelTimes or distances key; 2147483648 = 2^31
\* does not fit an int32.
CellWires ==
    {Absent, NullLit, Arr(<<StrLit("a")>>), Arr(<<IntLit(2147483647)>>),
     Arr(<<[k |-> "num", neg |-> FALSE, ip |-> <<2, 1, 4, 7, 4, 8, 3, 6, 4, 8>>, fp |-> <<>>]>>)}
        \cup {Cells(n) : n \in 0..MaxCells}

\* The MatrixResponse bodies drawn.
MatrixBodies ==
    [numOrigins : {IntLit(1), IntLit(2)},
     numDestinations : {IntLit(2), IntLit(3)},
     travelTimes : CellWires,
     distances : {Absent, Cells(4), Cells(MaxCells)},
     errorCodes : {Absent, Arr(<<IntLit(0)>>), Arr(<<StrLit("a")>>), Arr(<<IntLit(3), NullLit>>)}]

\* A route object and a section object of a body.
RouteObj(id, sections) == [k |-> "obj", id |-> id, sections |-> sections]
SectionObj(id, type) == [k |-> "obj", id |-> id, type |-> type]

\* The RoutesResponse bodies drawn.
RoutesBodies ==
    [routes : {Absent, Arr(<<>>),
               Arr(<<RouteObj(StrLit("r1"), Arr(<<>>))>>),
               Arr(<<RouteObj(StrLit("r1"), Arr(<<SectionObj(StrLit("s1"), StrLit("vehicle"))>>)),
                     RouteObj(StrLit("r2"), Absent)>>),
               Arr(<<RouteObj(IntLit(5), Arr(<<>>))>>)},
     errorCodes : {Absent, NullLit, Arr(<<IntLit(0)>>), Arr(<<IntLit(0), StrLit("a")>>),
                   Arr(<<NullLit>>), Arr(<<IntLit(7), IntLit(99)>>)}]

\* ------------------------------------------------------------- formatting
\* The character of a decimal digit.
DigitChar(d) == <<"0", "1", "2", "3", "4", "5", "6", "7", "8", "9">>[d + 1]

\* The concatenation of a sequence of strings: cat[i] is that of the first i.
Concat(ss) ==
    LET cat[i \in 0..Len(ss)] == IF i = 0 THEN "" ELSE cat[i - 1] \o ss[i]
    IN cat[Len(ss)]

\* fmt's %v of a float64 (strconv.FormatFloat(f, 'g', -1, 64): the shortest
\* decimal that reads back as f).  A coordinate is held in tenths of a degree,
\* t standing for t / 10; for such values of a magnitude below 1e21 the form
\* is the sign, the integer part, and the fraction digit unless it is zero:
\* 15 gives "1.5", 30 gives "3", -5 gives "-0.5".
FormatFloat(t) ==
    LET a == IF t < 0 THEN 0 - t ELSE t
        ip == Digits(a \div 10)
    IN (IF t < 0 THEN "-" ELSE "")
           \o Concat([i \in 1..Len(ip) |-> DigitChar(ip[i])])
           \o (IF a % 10 = 0 THEN "" ELSE "." \o DigitChar(a % 10))

SprintfPairSwapped(a, b) == <<FormatFloat(b), ",", FormatFloat(a)>>

\* fmt.Sprintf("%v,%v", a, b) of two float64.  A string that is escaped later
\* is held as its pieces: each piece is a run of characters url.QueryEscape
\* keeps (letters, digits, '-', '_', '.', '~') or a single other character.
SprintfPair(a, b) == <<FormatFloat(a), ",", FormatFloat(b)>>

\* url.QueryEscape of one piece: a space becomes '+', any other character
\* outside the unreserved set becomes %XX.
EscapePiece(p) ==
    CASE p = "," -> "%2C"
      [] p = " " -> "+"
      [] p = ":" -> "%3A"
      [] p = "&" -> "%26"
      [] p = "=" -> "%3D"
      [] OTHER -> p

\* url.QueryEscape(s)
QueryEscape(s) == Concat([i \in 1..Len(s) |-> EscapePiece(s[i])])

\* ------------------------------------------------------------- url.Values
\* url.Values is map[string][]string: a set of entries [key, vals], one for
\* each key of the map.
MakeValues == {}

\* func (v Values) Add(key, value string): appends value to the values of key.
Add(vs, key, value) ==
    IF \E e \in vs : e.key = key
    THEN {IF e.key = key THEN [e EXCEPT !.vals = Append(@, value)] ELSE e : e \in vs}
    ELSE vs \cup {[key |-> key, vals |-> <<value>>]}

\* The query keys Routes uses, in the order of their bytes (what
\* slices.Sort gives for them in Values.Encode).
KeyOrder ==
    <<"alternatives", "currency", "destination", "origin", "return", "spans",
      "transportMode">>

\* The entry of a key of the map.
Entry(vs, key) == CHOOSE e \in vs : e.key = key

\* key=value for each value of one entry, joined by '&', both escaped.
EncodeEntry(e) ==
    Concat([i \in 1..Len(e.vals) |->
               (IF i = 1 THEN "" ELSE "&") \o e.key \o "=" \o QueryEscape(e.vals[i])])

\* func (v Values) Encode() string: the entries sorted by key.
Encode(vs) ==
    LET keys == SelectSeq(KeyOrder, LAMBDA k : \E e \in vs : e.key = k)
    IN Concat([i \in 1..Len(keys) |->
                  (IF i = 1 THEN "" ELSE "&") \o EncodeEntry(Entry(vs, keys[i]))])

\* ------------------------------------------------------------- url.URL
\* A URL is [scheme, host, path], the path a sequence of segments; a path that
\* ends in '/' ends in an empty segment.
BaseURL == [scheme |-> "https", host |-> "router.hereapi.com", path |-> <<"v8", "">>]

\* func (u *URL) Parse(ref string) for a relative reference given as its
\* pieces: url.Parse rejects a control character and a colon in the first
\* path segment; ResolveReference replaces the last segment of the base path.
URLParse(base, ref) ==
    IF \E i \in 1..Len(ref) : ref[i] \in {":", "\n"}
    THEN [u |-> base,
          err |-> [type |-> "url.Error", msg |-> "parse " \o Concat(ref) \o ": invalid URL"]]
    ELSE [u |-> [base EXCEPT !.path = SubSeq(@, 1, Len(@) - 1) \o <<Concat(ref)>>],
          err |-> NoErr]

\* ------------------------------------------------------------- collaborators
\* The tokens TransportMode.String() gives for a mode that is not set and for
\* a mode it does not know.
unspecified == "unspecified"
invalid == "invalid"

\* func (t TransportMode) String() string: 0 is the mode that is not set, 1 and
\* 2 are modes it knows, any other value is none.
TransportModeString(t) ==
    CASE t = 0 -> unspecified
      [] t = 1 -> "car"
      [] t = 2 -> "pedestrian"
      [] OTHER -> invalid

\* http.MethodGet
MethodGet == "GET"

\* No *http.Request.
NoRequest == [ctx |-> 0, url |-> BaseURL, method |-> "", query |-> "", nil |-> TRUE]

\* Client.NewRequest(ctx, u, method, query, body): the request built from the
\* arguments, or an error when the construction fails (fail is the
\* collaborator's choice).
ClientNewRequest(ctx, u, method, query, body, fail) ==
    IF fail
    THEN [r |-> NoRequest, err |-> [type |-> "client.RequestError", msg |-> "bad request"]]
    ELSE [r |-> [ctx |-> ctx, url |-> u, method |-> method, query |-> query, nil |-> FALSE],
          err |-> NoErr]

\* context.Canceled
Canceled == [type |-> "context.Canceled", msg |-> "context canceled"]

\* The outcomes of the exchange Client.Do performs, when it is not cancelled:
\* a transport failure, or a response with one of these bodies.
DoBodies ==
    {[routes |-> Arr(<<RouteObj(StrLit("r1"), Arr(<<>>))>>), errorCodes |-> Arr(<<IntLit(0)>>)],
     [routes |-> Arr(<<RouteObj(StrLit("r1"), Arr(<<>>))>>),
      errorCodes |-> Arr(<<IntLit(0), StrLit("a")>>)]}

\* The outcomes of an exchange: a transport failure (no body), or a response.
DoOutcomes ==
    {[kind |-> "transport", body |-> [routes |-> Absent, errorCodes |-> Absent]]}
        \cup {[kind |-> "response", body |-> b] : b \in DoBodies}

\* What a decode of the body leaves in out, and the error Do returns for it.
Written(decoded) == [out |-> decoded.v, err |-> decoded.err]

\* Client.Do(r, out) for out pointing at a RoutesResponse holding cur: a
\* cancelled context ends the exchange with context.Canceled and a transport
\* failure ends it with its error, out untouched in both; otherwise the body
\* is decoded into out, and the decode error, if any, is returned.
ClientDo(rq, cur, cancelledNow, outcome) ==
    CASE cancelledNow -> [out |-> cur, err |-> Canceled]
      [] outcome.kind = "transport" ->
            [out |-> cur, err |-> [type |-> "net.OpError", msg |-> "connection refused"]]
      [] OTHER -> Written(DecodeRoutesResponse(outcome.body))

\* ------------------------------------------------------------- requests
\* A GeoWaypoint holds Lat and Long in tenths of a degree.
GeoWaypoint(lat, long) == [Lat |-> lat, Long |-> long]

\* The zero RoutesRequest.
RoutesRequest ==
    [TransportMode |-> 0, Origin |-> GeoWaypoint(0, 0), Destination |-> GeoWaypoint(0, 0)]

\* The requests drawn: each mode that is none, a car from (1.5, 2.5) to
\* (3, 4), and a pedestrian from (-0.5, 10) to (1.5, 2.5).
Requests ==
    {[TransportMode |-> 0, Origin |-> GeoWaypoint(15, 25), Destination |-> GeoWaypoint(30, 40)],
     [TransportMode |-> 9, Origin |-> GeoWaypoint(15, 25), Destination |-> GeoWaypoint(30, 40)],
     [TransportMode |-> 1, Origin |-> GeoWaypoint(15, 25), Destination |-> GeoWaypoint(30, 40)],
     [TransportMode |-> 2, Origin |-> GeoWaypoint(0 - 5, 100),
      Destination |-> GeoWaypoint(15, 25)]}

\* The calls: call c runs with the caller's context c.
Calls == 1..NumCalls

\* A nil *RoutesResponse, and the pointer to a RoutesResponse holding v.
NilResponse == [nil |-> TRUE, v |-> RoutesResponse]
PointerTo(v) == [nil |-> FALSE, v |-> v]

\* Nothing returned yet.
NoReturn == [resp |-> NilResponse, err |-> NoErr]

\* ------------------------------------------------------------- state
VARIABLES
    task,   \* DecodeSpec: which decoder the run applies
    wire,   \* DecodeSpec: the wire value handed to it
    recv,   \* DecodeSpec: the value of the target before the decode
    out,    \* DecodeSpec: the value of the target after the decode
    derr,   \* DecodeSpec: the error the decode returned
    dpc,    \* DecodeSpec: "ready" before the decode, "done" after
    svc,        \* the RoutingService s: its URL and its Client
    pc,         \* per call: the statement of Routes it is at
    req,        \* per call: the *RoutesRequest it was given
    cancelled,  \* per call: whether the caller's context is cancelled
    tm,         \* per call: the local tm
    routesURL,  \* per call: the local u
    values,     \* per call: the local values
    httpReq,    \* per call: the local r
    resp,       \* per call: the local resp
    lastErr,    \* per call: the local err
    ret,        \* per call: what the call returned
    log,        \* per call: the invocations of the Client it made, in order
    env         \* per call: what the collaborators chose for it (history)

dvars == <<task, wire, recv, out, derr, dpc>>
rvars == <<svc, pc, req, cancelled, tm, routesURL, values, httpReq, resp, lastErr, ret,
           log, env>>
vars == <<task, wire, recv, out, derr, dpc,
          svc, pc, req, cancelled, tm, routesURL, values, httpReq, resp, lastErr, ret,
          log, env>>

\* ------------------------------------------------------------- Routes
\* What the collaborators chose for a call: whether NewRequest failed, the
\* outcome of the exchange, and whether the context was cancelled when the
\* exchange completed.
NoEnv ==
    [fail |-> FALSE,
     outcome |-> [kind |-> "none", body |-> [routes |-> Absent, errorCodes |-> Absent]],
     cancelledAtDo |-> FALSE]

\* The service as constructed, and no call made yet.
RoutesInit ==
    /\ svc = [URL |-> BaseURL, Client |-> "client"]
    /\ pc = [c \in Calls |-> "idle"]
    /\ req = [c \in Calls |-> RoutesRequest]
    /\ cancelled = [c \in Calls |-> FALSE]
    /\ tm = [c \in Calls |-> ""]
    /\ routesURL = [c \in Calls |-> BaseURL]
    /\ values = [c \in Calls |-> MakeValues]
    /\ httpReq = [c \in Calls |-> NoRequest]
    /\ resp = [c \in Calls |-> RoutesResponse]
    /\ lastErr = [c \in Calls |-> NoErr]
    /\ ret = [c \in Calls |-> NoReturn]
    /\ log = [c \in Calls |-> <<>>]
    /\ env = [c \in Calls |-> NoEnv]

\* The caller invokes s.Routes(ctx, req).
Call(c) ==
    /\ pc[c] = "idle"
    /\ \E q \in Requests : req' = [req EXCEPT ![c] = q]
    /\ pc' = [pc EXCEPT ![c] = "L217"]
    /\ UNCHANGED <<svc, cancelled, tm, routesURL, values, httpReq, resp, lastErr, ret,
                   log, env>>

\* The caller cancels the context of a call whose exchange has not completed
\* (nothing reads the context after that).
Cancel(c) ==
    /\ pc[c] \in {"L217", "L222", "L227", "L236", "L240", "Do"}
    /\ ~cancelled[c]
    /\ cancelled' = [cancelled EXCEPT ![c] = TRUE]
    /\ UNCHANGED <<svc, pc, req, tm, routesURL, values, httpReq, resp, lastErr, ret,
                   log, env>>

IsNoModeInvalidOnly(t) == t = invalid

\* tm == invalid || tm == unspecified
IsNoMode(t) == t = invalid \/ t = unspecified

\* return nil, fmt.Errorf("invalid transportmode")
ValidationFailure ==
    [resp |-> NilResponse, err |-> [type |-> "fmt.Error", msg |-> "invalid transportmode"]]

\* tm := req.TransportMode.String(); the two tokens that are no mode end the
\* call with a validation error.
Validate(c) ==
    /\ pc[c] = "L217"
    /\ \E t \in {TransportModeString(req[c].TransportMode)} :
          /\ tm' = [tm EXCEPT ![c] = t]
          /\ IF IsNoMode(t)
             THEN /\ ret' = [ret EXCEPT ![c] = ValidationFailure]
                  /\ pc' = [pc EXCEPT ![c] = "done"]
             ELSE /\ ret' = ret
                  /\ pc' = [pc EXCEPT ![c] = "L222"]
    /\ UNCHANGED <<svc, req, cancelled, routesURL, values, httpReq, resp, lastErr, log, env>>

\* if err != nil { return nil, err } after s.URL.Parse
URLFailure(e) == [resp |-> NilResponse, err |-> e]

\* u, err := s.URL.Parse("routes"); an error ends the call.
ParseURL(c) ==
    /\ pc[c] = "L222"
    /\ \E parsed \in {URLParse(svc.URL, <<"routes">>)} :
          /\ routesURL' = [routesURL EXCEPT ![c] = parsed.u]
          /\ lastErr' = [lastErr EXCEPT ![c] = parsed.err]
          /\ IF parsed.err # NoErr
             THEN /\ ret' = [ret EXCEPT ![c] = URLFailure(parsed.err)]
                  /\ pc' = [pc EXCEPT ![c] = "done"]
             ELSE /\ ret' = ret
                  /\ pc' = [pc EXCEPT ![c] = "L227"]
    /\ UNCHANGED <<svc, req, cancelled, tm, values, httpReq, resp, log, env>>

\* The seven values.Add of Routes, in their order, on a fresh url.Values.
RoutesValues(q, t) ==
    Add(Add(Add(Add(Add(Add(Add(MakeValues,
        "return",
        <<"summary", ",", "polyline", ",", "elevation", ",", "actions", ",",
          "instructions", ",", "travelSummary", ",", "tolls", ",", "incidents">>),
        "transportMode", <<t>>),
        "origin", SprintfPair(q.Origin.Lat, q.Origin.Long)),
        "destination", SprintfPair(q.Destination.Lat, q.Destination.Long)),
        "spans",
        <<"length", ",", "duration", ",", "maxSpeed", ",", "speedLimit", ",",
          "incidents", ",", "notices">>),
        "alternatives", <<"6">>),
        "currency", <<"EUR">>)

\* values := make(url.Values) and the seven values.Add.
BuildQuery(c) ==
    /\ pc[c] = "L227"
    /\ values' = [values EXCEPT ![c] = RoutesValues(req[c], tm[c])]
    /\ pc' = [pc EXCEPT ![c] = "L236"]
    /\ UNCHANGED <<svc, req, cancelled, tm, routesURL, httpReq, resp, lastErr, ret, log, env>>

\* The invocation s.Client.NewRequest(ctx, u, method, query, nil), as logged.
NewRequestCall(ctx, url, method, query) ==
    [op |-> "NewRequest", ctx |-> ctx, url |-> url, method |-> method, query |-> query,
     body |-> "nil"]

WrapNewRequestErrBare(e) == e

\* fmt.Errorf("unable to create get request: %v", err)
WrapNewRequestErr(e) ==
    [type |-> "fmt.Error", msg |-> "unable to create get request: " \o e.msg]

\* Routes once NewRequest has returned n for the query: an error ends the
\* call, wrapped.
NewRequestReturned(c, query, n) ==
    /\ log' = [log EXCEPT ![c] =
                  Append(@, NewRequestCall(c, routesURL[c], MethodGet, query))]
    /\ httpReq' = [httpReq EXCEPT ![c] = n.r]
    /\ lastErr' = [lastErr EXCEPT ![c] = n.err]
    /\ IF n.err # NoErr
       THEN /\ ret' = [ret EXCEPT ![c] =
                          [resp |-> NilResponse, err |-> WrapNewRequestErr(n.err)]]
            /\ pc' = [pc EXCEPT ![c] = "done"]
       ELSE /\ ret' = ret
            /\ pc' = [pc EXCEPT ![c] = "L240"]

\* r, err := s.Client.NewRequest(ctx, u, http.MethodGet, values.Encode(), nil)
\* with the caller's context, and the check of err.
NewRequest(c) ==
    /\ pc[c] = "L236"
    /\ \E fail \in BOOLEAN :
          /\ env' = [env EXCEPT ![c].fail = fail]
          /\ \E query \in {Encode(values[c])} :
                NewRequestReturned(
                    c, query,
                    ClientNewRequest(c, routesURL[c], MethodGet, query, "nil", fail))
    /\ UNCHANGED <<svc, req, cancelled, tm, routesURL, values, resp>>

\* var resp RoutesResponse, and the call s.Client.Do(r, &resp) is made.
DoCall(c) ==
    /\ pc[c] = "L240"
    /\ resp' = [resp EXCEPT ![c] = RoutesResponse]
    /\ log' = [log EXCEPT ![c] = Append(@, [op |-> "Do", r |-> httpReq[c]])]
    /\ pc' = [pc EXCEPT ![c] = "Do"]
    /\ UNCHANGED <<svc, req, cancelled, tm, routesURL, values, httpReq, lastErr, ret, env>>

DoCompleteShared(c) ==
    /\ pc[c] = "Do"
    /\ \E outcome \in DoOutcomes :
          /\ env' = [env EXCEPT ![c].outcome = outcome, ![c].cancelledAtDo = cancelled[c]]
          /\ \E did \in {ClientDo(httpReq[c], resp[c], cancelled[c], outcome)} :
                /\ resp' = [d \in Calls |-> did.out]
                /\ lastErr' = [lastErr EXCEPT ![c] = did.err]
    /\ pc' = [pc EXCEPT ![c] = "L241"]
    /\ UNCHANGED <<svc, req, cancelled, tm, routesURL, values, httpReq, ret, log>>

\* s.Client.Do(r, &resp) completes: it has written the resp of the call and
\* returns err.
DoComplete(c) ==
    /\ pc[c] = "Do"
    /\ \E outcome \in DoOutcomes :
          /\ env' = [env EXCEPT ![c].outcome = outcome, ![c].cancelledAtDo = cancelled[c]]
          /\ \E did \in {ClientDo(httpReq[c], resp[c], cancelled[c], outcome)} :
                /\ resp' = [resp EXCEPT ![c] = did.out]
                /\ lastErr' = [lastErr EXCEPT ![c] = did.err]
    /\ pc' = [pc EXCEPT ![c] = "L241"]
    /\ UNCHANGED <<svc, req, cancelled, tm, routesURL, values, httpReq, ret, log>>

ReturnAfterDoPartial(e, rsp) == [resp |-> PointerTo(rsp), err |-> e]

ReturnAfterDoSwallow(e, rsp) == [resp |-> PointerTo(rsp), err |-> NoErr]

\* if err := s.Client.Do(r, &resp); err != nil { return nil, err }
\* return &resp, nil
ReturnAfterDo(e, rsp) ==
    IF e # NoErr
    THEN [resp |-> NilResponse, err |-> e]
    ELSE [resp |-> PointerTo(rsp), err |-> NoErr]

ReturnRetry(c) ==
    /\ pc[c] = "L241"
    /\ IF lastErr[c] # NoErr /\ Len(log[c]) < 4
       THEN pc' = [pc EXCEPT ![c] = "L240"] /\ ret' = ret
       ELSE /\ ret' = [ret EXCEPT ![c] = ReturnAfterDo(lastErr[c], resp[c])]
            /\ pc' = [pc EXCEPT ![c] = "done"]
    /\ UNCHANGED <<svc, req, cancelled, tm, routesURL, values, httpReq, resp, lastErr, log,
                   env>>

\* The check of the error of Do and the return: the call ends.
Return(c) ==
    /\ pc[c] = "L241"
    /\ ret' = [ret EXCEPT ![c] = ReturnAfterDo(lastErr[c], resp[c])]
    /\ pc' = [pc EXCEPT ![c] = "done"]
    /\ UNCHANGED <<svc, req, cancelled, tm, routesURL, values, httpReq, resp, lastErr, log,
                   env>>

\* No decoder runs under Spec.
DecodeIdle ==
    /\ task = "none"
    /\ wire = Absent
    /\ recv = NilSlice
    /\ out = NilSlice
    /\ derr = NoErr
    /\ dpc = "off"

Init == RoutesInit /\ DecodeIdle

Next ==
    \E c \in Calls :
        \/ Call(c) /\ UNCHANGED dvars
        \/ Cancel(c) /\ UNCHANGED dvars
        \/ Validate(c) /\ UNCHANGED dvars
        \/ ParseURL(c) /\ UNCHANGED dvars
        \/ BuildQuery(c) /\ UNCHANGED dvars
        \/ NewRequest(c) /\ UNCHANGED dvars
        \/ DoCall(c) /\ UNCHANGED dvars
        \/ DoComplete(c) /\ UNCHANGED dvars
        \/ Return(c) /\ UNCHANGED dvars

Spec == Init /\ [][Next]_vars

\* ------------------------------------------------------------- DecodeSpec
DecodeInit ==
    /\ dpc = "ready"
    /\ derr = NoErr
    /\ \/ /\ task = "ErrorCodes"
          /\ wire \in CodeWires
          /\ recv \in {NilSlice, MakeSlice(<<ErrorCode(ErrorCodeDisconnected)>>)}
       \/ /\ task = "MatrixResponse"
          /\ wire \in MatrixBodies
          /\ recv = MatrixResponse
       \/ /\ task = "RoutesResponse"
          /\ wire \in RoutesBodies
          /\ recv = RoutesResponse
    /\ out = recv
    /\ RoutesInit

\* e.UnmarshalJSON(b) on a receiver holding recv.
DecodeErrorCodes ==
    /\ dpc = "ready" /\ task = "ErrorCodes"
    /\ \E res \in {UnmarshalJSON(recv, wire)} : out' = res.e /\ derr' = res.err
    /\ dpc' = "done"
    /\ UNCHANGED <<task, wire, recv>>
    /\ UNCHANGED rvars

\* json.Unmarshal(body, &m) for a zero MatrixResponse m.
DecodeMatrix ==
    /\ dpc = "ready" /\ task = "MatrixResponse"
    /\ \E res \in {DecodeMatrixResponse(wire)} : out' = res.v /\ derr' = res.err
    /\ dpc' = "done"
    /\ UNCHANGED <<task, wire, recv>>
    /\ UNCHANGED rvars

\* json.Unmarshal(body, &resp) for a zero RoutesResponse resp.
DecodeRoutes ==
    /\ dpc = "ready" /\ task = "RoutesResponse"
    /\ \E res \in {DecodeRoutesResponse(wire)} : out' = res.v /\ derr' = res.err
    /\ dpc' = "done"
    /\ UNCHANGED <<task, wire, recv>>
    /\ UNCHANGED rvars

DecodeNext == DecodeErrorCodes \/ DecodeMatrix \/ DecodeRoutes

DecodeSpec == DecodeInit /\ [][DecodeNext]_vars

\* ------------------------------------------------------------- properties of the decoders
\* A JSON value that is an integer: a number literal without a fraction part.
IsIntegerTok(tok) == tok.k = "num" /\ tok.fp = <<>>

\* C2: for every sequence S of integers, values outside the named constants
\* included, UnmarshalJSON on the wire form of S returns no error and leaves
\* the receiver holding Len(S) codes whose i-th, read back as an integer, is
\* S[i].
C2_RoundTrip ==
    (task = "ErrorCodes" /\ dpc = "done" /\ wire.k = "arr") =>
        \A S \in [1..Len(wire.items) -> SampleInts] :
            wire = WireForm(S) =>
                /\ derr = NoErr
                /\ ~out.nil
                /\ Len(out.items) = Len(S)
                /\ \A i \in 1..Len(S) : IntOf(out.items[i]) = S[i]

\* A receiver that held [ErrorCodeDisconnected] has decoded [7, -1, 99].
C2_Witness ==
    /\ task = "ErrorCodes" /\ dpc = "done"
    /\ recv = MakeSlice(<<ErrorCode(ErrorCodeDisconnected)>>)
    /\ wire = WireForm(<<7, 0 - 1, ErrorCodeUnknown>>)
    /\ out = MakeSlice(<<ErrorCode(7), ErrorCode(0 - 1), ErrorCode(ErrorCodeUnknown)>>)
    /\ derr = NoErr

\* The errorCodes array of a body has an element that is not an integer.
HasNonInteger(tok) ==
    tok.k = "arr" /\ \E i \in 1..Len(tok.items) : ~IsIntegerTok(tok.items[i])

\* C3: when an element of the array, at any position, is not an integer,
\* UnmarshalJSON returns an error and the receiver keeps its previous value,
\* and the decode of the enclosing MatrixResponse or RoutesResponse returns an
\* error.
C3_NonIntegerFails ==
    /\ (task = "ErrorCodes" /\ dpc = "done" /\ HasNonInteger(wire)) =>
            (derr # NoErr /\ out = recv)
    /\ (task \in {"MatrixResponse", "RoutesResponse"} /\ dpc = "done"
            /\ HasNonInteger(wire.errorCodes)) =>
            derr # NoErr

\* The values drawn for travelTimes and distances that decode into []int32.
CellArrays == {Cells(n) : n \in 0..MaxCells}

\* C8 as claimed: a MatrixResponse decoded without error has, for travelTimes
\* and for distances when present, numOrigins * numDestinations elements, and
\* an absent array decodes, without a failure, to an absent (nil) attribute.
C8_LengthIsProduct ==
    (task = "MatrixResponse" /\ dpc = "done" /\ derr = NoErr) =>
        /\ wire.travelTimes.k = "arr" =>
              Len(out.TravelTimes.items) = out.NumOrigins * out.NumDestinations
        /\ wire.distances.k = "arr" =>
              Len(out.Distances.items) = out.NumOrigins * out.NumDestinations
        /\ wire.travelTimes.k = "absent" => out.TravelTimes = NilSlice
        /\ wire.distances.k = "absent" => out.Distances = NilSlice

\* C8 amended: a MatrixResponse decoded without error holds in TravelTimes and
\* in Distances as many elements as the array on the wire has (no more is
\* checked), so a 2 x 3 body with six travelTimes decodes to six; an absent
\* array leaves the attribute nil and is no cause of a decode failure.
C8_LengthIsWireLength ==
    (task = "MatrixResponse" /\ dpc = "done") =>
        /\ (derr = NoErr /\ wire.travelTimes.k = "arr") =>
              (~out.TravelTimes.nil
                  /\ Len(out.TravelTimes.items) = Len(wire.travelTimes.items))
        /\ (derr = NoErr /\ wire.distances.k = "arr") =>
              (~out.Distances.nil
                  /\ Len(out.Distances.items) = Len(wire.distances.items))
        /\ wire.travelTimes.k = "absent" => out.TravelTimes = NilSlice
        /\ wire.distances.k = "absent" => out.Distances = NilSlice
        /\ (wire.travelTimes \in {Absent} \cup CellArrays
                /\ wire.distances \in {Absent} \cup CellArrays
                /\ ~HasNonInteger(wire.errorCodes)) =>
              derr = NoErr

\* A 2 x 3 body with six travelTimes and no distances has decoded.
C8_Witness ==
    /\ task = "MatrixResponse" /\ dpc = "done" /\ derr = NoErr
    /\ wire.numOrigins = IntLit(2) /\ wire.numDestinations = IntLit(3)
    /\ wire.travelTimes = Cells(6) /\ wire.distances = Absent
    /\ out.NumOrigins = 2 /\ out.NumDestinations = 3
    /\ out.TravelTimes = MakeSlice(<<10, 20, 30, 40, 50, 60>>)
    /\ out.Distances = NilSlice

\* ------------------------------------------------------------- properties of Routes
\* The call has been made and its mode is one of the two tokens that are none.
NoModeCall(c) ==
    pc[c] # "idle" /\ TransportModeString(req[c].TransportMode) \in {invalid, unspecified}

\* The invocations of op that call c has made.
Invocations(c, op) == {i \in 1..Len(log[c]) : log[c][i].op = op}

\* C1: a call whose mode is the invalid or the unspecified token returns a
\* nil response and the validation error, and it invokes neither
\* Client.NewRequest nor Client.Do at any point.
C1_NoModeNoNetwork ==
    \A c \in Calls :
        NoModeCall(c) =>
            /\ log[c] = <<>>
            /\ pc[c] \in {"L217", "done"}
            /\ pc[c] = "done" =>
                  /\ ret[c].resp = NilResponse
                  /\ ret[c].err = [type |-> "fmt.Error", msg |-> "invalid transportmode"]

\* One call with the mode that is not set and one with a mode that is not
\* known have both ended with the validation error.
C1_Witness ==
    \E c, d \in Calls :
        /\ pc[c] = "done" /\ req[c].TransportMode = 0
        /\ pc[d] = "done" /\ req[d].TransportMode = 9
        /\ ret[c].err.msg = "invalid transportmode" /\ ret[c].resp.nil
        /\ ret[d].err.msg = "invalid transportmode" /\ ret[d].resp.nil
        /\ log[c] = <<>> /\ log[d] = <<>>

\* C4: a call that has passed validation and URL construction invokes
\* Client.NewRequest exactly once, with GET, and Client.Do at most once, after
\* a NewRequest that returned no error and with the request it returned; an
\* error of either is followed by no further invocation, so a call that has
\* ended made at most one exchange and a call that succeeded exactly one.
C4_OneExchange ==
    \A c \in Calls :
        /\ Len(log[c]) <= 2
        /\ pc[c] \in {"L240", "Do", "L241"} \/ (pc[c] = "done" /\ routesURL[c] # BaseURL) =>
              /\ Invocations(c, "NewRequest") = {1}
              /\ log[c][1].method = "GET"
        /\ \A i \in Invocations(c, "Do") :
              /\ i = 2 /\ log[c][1].op = "NewRequest"
              /\ ~env[c].fail
              /\ log[c][2].r =
                    [ctx |-> log[c][1].ctx, url |-> log[c][1].url, method |-> "GET",
                     query |-> log[c][1].query, nil |-> FALSE]
        /\ env[c].fail => Invocations(c, "Do") = {}
        /\ (pc[c] = "done" /\ ret[c].err = NoErr) =>
              (Invocations(c, "NewRequest") = {1} /\ Invocations(c, "Do") = {2})

\* A call whose exchange failed has ended with one NewRequest and one Do, and
\* a call whose NewRequest failed with one NewRequest and no Do.
C4_Witness ==
    \E c, d \in Calls :
        /\ pc[c] = "done" /\ ret[c].err.type = "net.OpError"
        /\ Len(log[c]) = 2 /\ log[c][1].op = "NewRequest" /\ log[c][2].op = "Do"
        /\ pc[d] = "done" /\ env[d].fail
        /\ Len(log[d]) = 1 /\ log[d][1].op = "NewRequest"

\* The response of the first body of DoBodies: one Route of id r1 without
\* sections, and the codes [ErrorCodeSuccess].
ResponseR1 ==
    [Routes |-> MakeSlice(<<[ID |-> "r1", Sections |-> MakeSlice(<<>>)]>>),
     ErrorCodes |-> MakeSlice(<<ErrorCode(ErrorCodeSuccess)>>)]

\* Some step of call c failed: validation, NewRequest or Do (URL construction
\* with the reference "routes" has no failing case).
Failed(c) ==
    \/ NoModeCall(c)
    \/ env[c].fail
    \/ Invocations(c, "Do") # {} /\ lastErr[c] # NoErr

\* C5: a call that has ended returned either a response or an error, never
\* both and never neither: after a failure of validation, NewRequest or Do
\* the response is nil, also when Do had written part of resp, and the error
\* is not nil; otherwise the error is nil and the response is the value Do
\* wrote through the out pointer.
C5_ResponseXorError ==
    \A c \in Calls :
        pc[c] = "done" =>
            /\ ret[c].resp.nil <=> ret[c].err # NoErr
            /\ Failed(c) => (ret[c].resp = NilResponse /\ ret[c].err # NoErr)
            /\ ~Failed(c) =>
                  /\ ret[c].err = NoErr
                  /\ ret[c].resp =
                        PointerTo(ClientDo(httpReq[c], RoutesResponse,
                                           env[c].cancelledAtDo, env[c].outcome).out)
                  /\ ret[c].resp = PointerTo(ResponseR1)

\* One call returned the response r1 and another, where Do had written the
\* routes before the decode of errorCodes failed, returned nil and the error.
C5_Witness ==
    \E c, d \in Calls :
        /\ pc[c] = "done" /\ ret[c] = [resp |-> PointerTo(ResponseR1), err |-> NoErr]
        /\ pc[d] = "done" /\ resp[d].Routes # NilSlice
        /\ ret[d].resp = NilResponse /\ ret[d].err.type = "json.UnmarshalTypeError"

\* The decimal text of the coordinates the requests hold, written out.
CoordText(t) ==
    CASE t = 15 -> "1.5"
      [] t = 25 -> "2.5"
      [] t = 30 -> "3"
      [] t = 40 -> "4"
      [] t = 0 - 5 -> "-0.5"
      [] t = 100 -> "10"

\* The mode token of the modes Routes accepts, written out.
ModeText(m) == IF m = 1 THEN "car" ELSE "pedestrian"

\* The only value of a key of the values of call c, as text.
Only(c, key) == Concat(Entry(values[c], key).vals[1])

\* The query string expected for request q, keys in byte order and ','
\* escaped as %2C.
ExpectedQuery(q) ==
    "alternatives=6&currency=EUR"
        \o "&destination=" \o CoordText(q.Destination.Lat) \o "%2C"
        \o CoordText(q.Destination.Long)
        \o "&origin=" \o CoordText(q.Origin.Lat) \o "%2C" \o CoordText(q.Origin.Long)
        \o "&return=summary%2Cpolyline%2Celevation%2Cactions%2Cinstructions"
        \o "%2CtravelSummary%2Ctolls%2Cincidents"
        \o "&spans=length%2Cduration%2CmaxSpeed%2CspeedLimit%2Cincidents%2Cnotices"
        \o "&transportMode=" \o ModeText(q.TransportMode)

\* C6: the query of a valid request holds exactly the seven keys, each with
\* one value: the mode token, origin as "<Origin.Lat>,<Origin.Long>",
\* destination as "<Destination.Lat>,<Destination.Long>", alternatives 6,
\* currency EUR and the two fixed lists; the string handed to
\* Client.NewRequest is its encoding, the same for equal requests.
C6_Query ==
    \A c \in Calls :
        /\ pc[c] \in {"L236", "L240", "Do", "L241"} \/ log[c] # <<>> =>
              /\ {e.key : e \in values[c]} =
                    {"return", "transportMode", "origin", "destination", "spans",
                     "alternatives", "currency"}
              /\ Cardinality(values[c]) = 7
              /\ \A e \in values[c] : Len(e.vals) = 1
              /\ Only(c, "transportMode") = ModeText(req[c].TransportMode)
              /\ Only(c, "transportMode") = tm[c]
              /\ Only(c, "origin") =
                    CoordText(req[c].Origin.Lat) \o "," \o CoordText(req[c].Origin.Long)
              /\ Only(c, "destination") =
                    CoordText(req[c].Destination.Lat) \o ","
                        \o CoordText(req[c].Destination.Long)
              /\ Only(c, "alternatives") = "6"
              /\ Only(c, "currency") = "EUR"
              /\ Only(c, "return") =
                    "summary,polyline,elevation,actions,instructions,travelSummary,tolls,incidents"
              /\ Only(c, "spans") = "length,duration,maxSpeed,speedLimit,incidents,notices"
        /\ log[c] # <<>> => log[c][1].query = ExpectedQuery(req[c])
        /\ \A d \in Calls :
              (log[c] # <<>> /\ log[d] # <<>> /\ req[c] = req[d]) =>
                  log[c][1].query = log[d][1].query

\* The car request from (1.5, 2.5) to (3, 4) and the pedestrian request from
\* (-0.5, 10) to (1.5, 2.5) have both been handed to Client.NewRequest.
C6_Witness ==
    \E c, d \in Calls :
        /\ req[c].TransportMode = 1 /\ req[d].TransportMode = 2
        /\ log[c] # <<>> /\ log[d] # <<>>
        /\ Only(c, "origin") = "1.5,2.5" /\ Only(c, "destination") = "3,4"
        /\ Only(d, "origin") = "-0.5,10" /\ Only(d, "destination") = "1.5,2.5"
        /\ log[c][1].query =
              "alternatives=6&currency=EUR&destination=3%2C4&origin=1.5%2C2.5"
                  \o "&return=summary%2Cpolyline%2Celevation%2Cactions%2Cinstructions"
                  \o "%2CtravelSummary%2Ctolls%2Cincidents"
                  \o "&spans=length%2Cduration%2CmaxSpeed%2CspeedLimit%2Cincidents%2Cnotices"
                  \o "&transportMode=car"

AloneReturn(nr, n, did) ==
    [ret |-> ReturnAfterDo(did.err, did.out), log |-> <<nr, [op |-> "Do", r |-> n.r]>>]

AloneExchange(nr, n, e) ==
    IF n.err # NoErr
    THEN [ret |-> [resp |-> NilResponse, err |-> WrapNewRequestErr(n.err)], log |-> <<nr>>]
    ELSE AloneReturn(nr, n, ClientDo(n.r, RoutesResponse, e.cancelledAtDo, e.outcome))

AloneRequest(ctx, u, query, e) ==
    AloneExchange(NewRequestCall(ctx, u, MethodGet, query),
                  ClientNewRequest(ctx, u, MethodGet, query, "nil", e.fail), e)

RoutesAlone(ctx, q, e) ==
    IF IsNoMode(TransportModeString(q.TransportMode))
    THEN [ret |-> ValidationFailure, log |-> <<>>]
    ELSE AloneRequest(ctx, URLParse(BaseURL, <<"routes">>).u,
                      Encode(RoutesValues(q, TransportModeString(q.TransportMode))), e)

\* The choices the collaborators can make for one call.
Envs == [fail : BOOLEAN, outcome : DoOutcomes \cup {NoEnv.outcome}, cancelledAtDo : BOOLEAN]

\* RoutesAlone tabulated over the contexts, requests and choices.
AloneTable ==
    {<<ctx, q, e, RoutesAlone(ctx, q, e)>> : ctx \in Calls, q \in Requests, e \in Envs}

\* C9: with several calls in flight on one RoutingService, under every
\* interleaving of their steps, the service is never written and every call
\* that has ended made the invocations, with the query, and returned the
\* response or error that it makes and returns when it runs alone.
C9_AsIfAlone ==
    /\ svc = [URL |-> BaseURL, Client |-> "client"]
    /\ \A c \in Calls :
          pc[c] = "done" =>
              <<c, req[c], env[c], [ret |-> ret[c], log |-> log[c]]>> \in AloneTable

\* One call has ended with the response r1 while the other, made with an
\* equal request, is back from a Client.Do that wrote part of its own resp and
\* reported a decode error.
C9_Witness ==
    \E c, d \in Calls :
        /\ pc[c] = "done" /\ ret[c] = [resp |-> PointerTo(ResponseR1), err |-> NoErr]
        /\ pc[d] = "L241" /\ lastErr[d].type = "json.UnmarshalTypeError"
        /\ resp[d] # resp[c]
        /\ req[c] = req[d]

\* The kind of the failure of a call that has ended, "none" without one.
FailureKind(c) ==
    CASE NoModeCall(c) -> "validation"
      [] env[c].fail -> "construction"
      [] Invocations(c, "Do") # {} /\ lastErr[c].type = "json.UnmarshalTypeError" -> "decode"
      [] Invocations(c, "Do") # {} /\ lastErr[c] # NoErr -> "transport"
      [] OTHER -> "none"

\* C10: no failure inside Routes is suppressed and failures of different
\* kinds return different errors: the validation error says so, an error of
\* URL construction is returned as it is, an error of NewRequest is returned
\* wrapped in the message "unable to create get request: ", and an error of
\* Do, transport or decode, is returned identical to what Do reported.
C10_Errors ==
    /\ \A e \in {URLParse(BaseURL, <<":">>).err} : e # NoErr /\ URLFailure(e).err = e
    /\ \A c \in Calls :
          pc[c] = "done" =>
              /\ FailureKind(c) # "none" <=> ret[c].err # NoErr
              /\ FailureKind(c) = "validation" => ret[c].err.msg = "invalid transportmode"
              /\ FailureKind(c) = "construction" =>
                    /\ ret[c].err.msg = "unable to create get request: " \o lastErr[c].msg
                    /\ ret[c].err.msg = "unable to create get request: bad request"
              /\ FailureKind(c) \in {"transport", "decode"} =>
                    /\ ret[c].err = lastErr[c]
                    /\ ret[c].err =
                          ClientDo(httpReq[c], RoutesResponse, env[c].cancelledAtDo,
                                   env[c].outcome).err
              /\ \A d \in Calls :
                    (pc[d] = "done" /\ FailureKind(c) # FailureKind(d)) =>
                        ret[c].err # ret[d].err

\* A call whose NewRequest failed has returned the wrapped error, and a call
\* whose exchange failed the error of Do.
C10_Witness ==
    \E c, d \in Calls :
        /\ pc[c] = "done" /\ FailureKind(c) = "construction"
        /\ ret[c].err.msg = "unable to create get request: bad request"
        /\ pc[d] = "done" /\ FailureKind(d) = "transport"
        /\ ret[d].err = [type |-> "net.OpError", msg |-> "connection refused"]

====
